---------------------------- MODULE Spec2Model ----------------------------
(***************************************************************************)
(* Model of the auto-healing monitoring loop of olho_de_deus/main.py       *)
(* (class VideoMonitor) together with the two helpers it imports from      *)
(* olho_de_deus/youtube_stream.py (get_live_url, check_stream_health) and  *)
(* the frame classifier of olho_de_deus/audit_network.py (check_health).   *)
(* Further specifications follow the start-up code of main.py (main and    *)
(* CameraLoader.find_camera), the capture loop of youtube_stream.py (main) *)
(* and the registry adds of farm_omni.py and farm_transito.py.             *)
(*                                                                         *)
(* A frame is a luminance plane in run-length form: a sequence of runs     *)
(* [v |-> gray value, n |-> number of pixels].  A string (URL, process     *)
(* output) is a sequence of tokens; Python's None is the value NoneVal.    *)
(* Time is counted in whole ticks of the wall clock read by time.time().   *)
(***************************************************************************)
EXTENDS Integers, Sequences, FiniteSets, TLC

(* ------------------------------ bounds --------------------------------- *)

\* wall-clock value when the session is constructed (time.time() is far
\* larger than any sampling interval; last_time starts at 0)
Epoch == 10

\* the clock is followed for this many ticks after Epoch
MaxElapsed == 5

\* sampling intervals 0..MaxInterval are tried (--interval)
MaxInterval == 3

\* youtube_stream.main is followed through MaxReconnects reconnects
MaxReconnects == 2

\* the frames given to the auditor's classifier have two runs of 1..MaxRun
\* pixels each
MaxRun == 2

\* one run of farm_transito.main is followed through MaxEvents URLs seen by
\* the request callbacks and the HTML scans, at most MaxMatches per HTML scan
MaxEvents == 4
MaxMatches == 2

\* run_full_audit is given up to MaxCams cameras and MaxWorkers threads
MaxCams == 3
MaxWorkers == 2

\* the farmers make up to MaxAdds add calls on one registry
MaxAdds == 3

\* a read or a poll takes 0..MaxStep ticks; the other calls of the loop
\* (imshow, the resolver, the open) are followed only up to the tick they
\* start in
MaxStep == 1

(* ------------------------- program constants --------------------------- *)

\* if consecutive_failures >= 3
FailureThreshold == 3

\* time.sleep(2) after a successful reopen
HealPause == 2

\* ord('q'), ord('s')
OrdQ == 113
OrdS == 115

\* cv2.threshold(gray, 5, 255, THRESH_BINARY): pixels above 5 count
DarkPixelLevel == 5

\* (non_zero / total_pixels) < 0.02, as a percentage
MinLitPercent == 2

\* NetworkAuditor.check_health: avg_brightness < 10, std_dev < 2
BlackMean == 10
FrozenStd == 2

\* camera['id'] = 1000 for an empty registry; c.get('id', 999)
FirstId == 1000
DefaultId == 999

\* len(TARGETS) in farm_transito.py
NumTargets == 3

(* ------------------------------ values --------------------------------- *)

NoneVal == <<"NONE_OBJ">>

\* Python truthiness of an Optional[str]
Truthy(x) == x # NoneVal /\ x # <<>>

Url0 == <<"url0">>
Url1 == <<"url1">>

Whitespace == {" ", "\n"}

RECURSIVE LStrip(_)
LStrip(s) == IF s # <<>> /\ Head(s) \in Whitespace THEN LStrip(Tail(s)) ELSE s

RECURSIVE RStrip(_)
RStrip(s) ==
    IF s # <<>> /\ s[Len(s)] \in Whitespace
    THEN RStrip(SubSeq(s, 1, Len(s) - 1))
    ELSE s

\* str.strip()
Strip(s) == RStrip(LStrip(s))

(* ------------------------------ frames --------------------------------- *)

Run(v, n) == [v |-> v, n |-> n]

\* index 0 stands for "no frame" (frame is None)
Frames ==
    << <<Run(0, 100)>>,                   \* 1 all black
       <<Run(8, 100)>>,                   \* 2 uniformly dim, every pixel above 5
       <<Run(128, 100)>>,                 \* 3 uniform mid gray (stalled picture)
       <<Run(0, 99), Run(255, 1)>>,       \* 4 1% lit
       <<Run(0, 98), Run(255, 2)>>,       \* 5 2% lit
       <<Run(10, 100)>>,                  \* 6 uniform, mean exactly 10
       <<Run(60, 50), Run(180, 50)>>,     \* 7 ordinary picture
       <<Run(8, 50), Run(12, 50)>>        \* 8 mean 10, deviation 2
    >>

FrameIds == 1..Len(Frames)

\* the frames a monitored feed delivers
FeedFrames == {1, 3, 4, 5, 7}

RECURSIVE Total(_)
Total(f) == IF f = <<>> THEN 0 ELSE Head(f).n + Total(Tail(f))

RECURSIVE CountAbove(_, _)
CountAbove(f, t) ==
    IF f = <<>> THEN 0
    ELSE (IF Head(f).v > t THEN Head(f).n ELSE 0) + CountAbove(Tail(f), t)

RECURSIVE SumV(_)
SumV(f) == IF f = <<>> THEN 0 ELSE Head(f).v * Head(f).n + SumV(Tail(f))

RECURSIVE SumSq(_)
SumSq(f) == IF f = <<>> THEN 0 ELSE Head(f).v * Head(f).v * Head(f).n + SumSq(Tail(f))

\* youtube_stream.check_stream_health(frame); fid = 0 is frame None
check_stream_health(fid) ==
    IF fid = 0 THEN FALSE
    ELSE LET gray == Frames[fid]
             non_zero == CountAbove(gray, DarkPixelLevel)
             total_pixels == Total(gray)
         IN  ~ (non_zero * 100 < MinLitPercent * total_pixels)

\* the value None where a frame is expected
NoFrame == <<>>

\* avg_brightness < 10, with avg_brightness = np.mean(gray)
IsBlack(gray) == SumV(gray) < BlackMean * Total(gray)

\* std_dev < 2, with std_dev = np.std(gray) = sqrt(mean(x^2) - mean(x)^2)
IsFrozen(gray) ==
    LET t == Total(gray)
    IN  t * SumSq(gray) - SumV(gray) * SumV(gray) < FrozenStd * FrozenStd * t * t

\* check_health_frame with the two tests in the other order
check_health_frame_StdFirst(f) ==
    IF f = NoFrame THEN "DEAD"
    ELSE IF IsFrozen(f) THEN "FROZEN/NOISE"
    ELSE IF IsBlack(f) THEN "BLACK_FRAME"
    ELSE "HEALTHY"

\* audit_network.NetworkAuditor.check_health(frame), on a frame or None
check_health_frame(f) ==
    IF f = NoFrame THEN "DEAD"
    ELSE IF IsBlack(f) THEN "BLACK_FRAME"
    ELSE IF IsFrozen(f) THEN "FROZEN/NOISE"
    ELSE "HEALTHY"

\* check_health on the frame with index fid (0: None)
check_health(fid) == check_health_frame(IF fid = 0 THEN NoFrame ELSE Frames[fid])

(* ----------------------------- resolver -------------------------------- *)

\* outcomes of subprocess.run(cmd, capture_output=True, text=True, timeout=15)
ProcOutcomes ==
    { [kind |-> "exit", returncode |-> 0, stdout |-> <<"url0", "\n">>],
      [kind |-> "exit", returncode |-> 0, stdout |-> <<"url1", "\n">>],
      [kind |-> "exit", returncode |-> 0, stdout |-> <<"\n">>],
      [kind |-> "exit", returncode |-> 1, stdout |-> <<>>],
      [kind |-> "exit", returncode |-> 1, stdout |-> <<"url0", "\n">>],
      [kind |-> "timeout", returncode |-> 0, stdout |-> <<>>],
      [kind |-> "exception", returncode |-> 0, stdout |-> <<>>] }

\* no resolver process was started
NoProc == [kind |-> "none", returncode |-> 0, stdout |-> <<>>]

\* get_live_url without the return-code test of lines 35-37
get_live_url_AnyExit(proc) ==
    IF proc.kind # "exit" THEN NoneVal ELSE Strip(proc.stdout)

\* youtube_stream.get_live_url: the value returned for one process outcome
get_live_url(proc) ==
    IF proc.kind # "exit" THEN NoneVal
    ELSE IF proc.returncode # 0 THEN NoneVal
    ELSE Strip(proc.stdout)

(* ------------------------------- state --------------------------------- *)

VARIABLES
    interval,               \* play(interval)
    youtube_id,             \* self.youtube_id
    source,                 \* self.source
    cap,                    \* self.cap: 0 is None, else an index into caps
    caps,                   \* every cv2.VideoCapture constructed so far
    window,                 \* the HighGUI window: "none", "open", "destroyed"
    pc,                     \* position of the control thread
    clock,                  \* the wall clock, time.time()
    current_time,           \* local of play
    last_time,              \* local of play
    consecutive_failures,   \* local of play
    ret,                    \* local of play: result flag of the last read
    frame,                  \* local of play: the last frame read (0: None)
    pendingKey,             \* key code waiting in the window's event queue
    displayed,              \* frame last given to cv2.imshow (0: none yet)
    saved,                  \* frame last written by cv2.imwrite (0: none yet)
    lastMsg,                \* tag of the last line printed
    stopReason,             \* why the loop was left
    prevStreak,             \* history: consecutive_failures before the last sample
    sampled,                \* history: outcome of the last sample
    healLog,                \* history: operations of the current healing cycle
    resolved,               \* history: value the resolver returned in this cycle
    unpolledReads,          \* history: reads since the last waitKey (saturates at 2)
    frozenRun,              \* history: consecutive stalled frames not yet answered by healing
    atEnd,                  \* the capture of a local file has reached its end of stream
    auditFrame,             \* NetworkAuditor: the frame handed to check_health
    auditStatus,            \* NetworkAuditor: the status check_health returned
    warned,                 \* history: the count printed by the last sample's warning (0: none)
    lastReadAt,             \* history: current_time of the iteration that read last
    args,                   \* main.py main: the parsed command line
    registry,               \* main.py main: loader.data, the content of cameras.json
    mainPc,                 \* main.py main: position
    cam_data,               \* main.py main: what find_camera returned
    stream_id,              \* main.py main
    video_source,           \* main.py main
    mainProc,               \* history: outcome of the resolver process main started
    monitor,                \* main.py main: the VideoMonitor objects built
    exitCode,               \* main.py main: argument of sys.exit (-1: not called)
    ytPc,                   \* youtube_stream.main: position
    ytInterval,             \* youtube_stream.main: args.interval
    ytUrl,                  \* youtube_stream.main: stream_url
    ytCap,                  \* youtube_stream.main: cap, an index into ytCaps (0: unbound)
    ytCaps,                 \* youtube_stream.main: every cv2.VideoCapture constructed
    ytKey,                  \* youtube_stream.main: key waiting in the window's queue
    ytUnpolled,             \* history: reads taken while a 'q' is waiting (saturates at 2)
    db,                     \* farm_omni / farm_transito: the registry list
    addLog,                 \* history: the add calls made on db, in order
    scanPc,                 \* farm_transito.main: position in the scan of one target
    scanTarget,             \* farm_transito.main: index of the target being scanned
    collected_streams,      \* farm_transito.main: the set shared by all scans
    local_streams,          \* scan_with_playwright: the list of the current scan
    scanLog,                \* history: every URL tested against collected_streams
    auditCams,              \* run_full_audit: cams, each with what auditing it meets
    auditTasks,             \* run_full_audit: state of each audit_camera call
    auditResults,           \* run_full_audit: the list built from executor.map
    auditPc                 \* run_full_audit: position of the calling thread

monitorVars == << interval, youtube_id, source, cap, caps, window, pc, clock,
                  current_time, last_time, consecutive_failures, ret, frame,
                  pendingKey, displayed, saved, lastMsg, stopReason, prevStreak,
                  sampled, healLog, resolved, unpolledReads, frozenRun, atEnd,
                  warned, lastReadAt >>

auditVars == << auditFrame, auditStatus >>

mainVars == << args, registry, mainPc, cam_data, stream_id, video_source,
               mainProc, monitor, exitCode >>

ytVars == << ytPc, ytInterval, ytUrl, ytCap, ytCaps, ytKey, ytUnpolled >>

farmVars == << db, addLog >>

scanVars == << scanPc, scanTarget, collected_streams, local_streams, scanLog >>

runVars == << auditCams, auditTasks, auditResults, auditPc >>

\* the variables of the programs other than VideoMonitor
otherVars == << auditVars, mainVars, ytVars, farmVars, scanVars, runVars >>

vars == << monitorVars, auditVars, mainVars, ytVars, farmVars, scanVars, runVars >>


(* ------------------------------ helpers -------------------------------- *)

\* key codes cv2.waitKey can return: none, 'q', 's', 'a'
KeyCodes == {-1, 113, 115, 97}

\* waitKey(1) & 0xFF
Mask(k) == k % 256

\* cv2.VideoCapture(addr) and cap.isOpened()
NewCapture(addr, ok) == [addr |-> addr, opened |-> ok, open |-> ok, releases |-> 0]

\* cap.release()
Release(h) == [h EXCEPT !.open = FALSE, !.releases = @ + 1]

\* the call takes d ticks of wall-clock time
Elapse(d) == clock + d <= Epoch + MaxElapsed /\ clock' = clock + d

Intervals == 0..MaxInterval

(* ------------------------- the camera registry ------------------------- *)

\* the longest --cam query tried
MaxQueryLen == 2

\* find_camera found nothing (None)
NoCam == [name |-> <<>>, id |-> <<>>]

\* a camera of cameras.json: only 'name' and 'id' are read
Camera(name, id) == [name |-> name, id |-> id]

\* cameras.json as loaded: countries in insertion order, each the list of its
\* states, each the list of its cities, each the list of its cameras (a
\* missing "states", "cities" or "cameras" key reads as an empty list)
Registries ==
    { <<>>,
      << << << <<Camera(<<"A", "b">>, <<"id1">>), Camera(<<"a", "B">>, <<"id2">>)>> >> >> >>,
      << << << <<Camera(<<"b", "A">>, <<"id1">>)>> >>, <<>> >>,
         << << <<Camera(<<"A", "B">>, <<"id2">>)>> >> >> >>,
      << << << <<>>, <<Camera(<<"B">>, <<"id1">>)>> >>,
            << <<Camera(<<"b", "a">>, <<"id2">>), Camera(<<"b">>, <<"id3">>)>> >> >> >>,
      << <<>>,
         << << <<Camera(<<"a", "a", "b">>, <<>>), Camera(<<"A", "a">>, <<"id2">>)>>,
               <<Camera(<<"a">>, <<"id3">>)>> >> >> >> }

QueryChars == {"a", "A", "b", "B", "c"}

\* the names given with --cam
Queries == UNION { [1..n -> QueryChars] : n \in 1..MaxQueryLen }

\* str.lower() on one character
LowerChar(c) == CASE c = "A" -> "a" [] c = "B" -> "b" [] OTHER -> c

\* str.lower()
Lower(str) == [i \in 1..Len(str) |-> LowerChar(str[i])]

\* sub in str
Contains(sub, str) ==
    \E k \in 0..(Len(str) - Len(sub)) : SubSeq(str, k + 1, k + Len(sub)) = sub

\* Matches comparing the names as they are
Matches_Exact(name, cam) == Contains(name, cam.name)

\* line 41: name.lower() in cam["name"].lower()
Matches(name, cam) == Contains(Lower(name), Lower(cam.name))

RECURSIVE FindInCameras(_, _)
\* lines 40-42
FindInCameras(cams, name) ==
    IF cams = <<>> THEN NoCam
    ELSE IF Matches(name, Head(cams)) THEN Head(cams)
    ELSE FindInCameras(Tail(cams), name)

RECURSIVE FindInCities(_, _)
\* line 39
FindInCities(cities, name) ==
    IF cities = <<>> THEN NoCam
    ELSE IF FindInCameras(Head(cities), name) # NoCam
         THEN FindInCameras(Head(cities), name)
         ELSE FindInCities(Tail(cities), name)

RECURSIVE FindInStates(_, _)
\* line 38
FindInStates(states, name) ==
    IF states = <<>> THEN NoCam
    ELSE IF FindInCities(Head(states), name) # NoCam
         THEN FindInCities(Head(states), name)
         ELSE FindInStates(Tail(states), name)

RECURSIVE find_camera(_, _)
\* CameraLoader.find_camera, lines 35-43
find_camera(data, name) ==
    IF data = <<>> THEN NoCam
    ELSE IF FindInStates(Head(data), name) # NoCam
         THEN FindInStates(Head(data), name)
         ELSE find_camera(Tail(data), name)

(* ---------------------------- construction ----------------------------- *)

\* the auditor, main.py main, youtube_stream.main and the farmers not started
AuditIdle == auditFrame = <<>> /\ auditStatus = "none"

MainIdle ==
    /\ args = [source |-> NoneVal, cam |-> NoneVal, id |-> NoneVal, list |-> FALSE]
    /\ registry = <<>>
    /\ mainPc = "idle"
    /\ cam_data = NoCam
    /\ stream_id = NoneVal
    /\ video_source = NoneVal
    /\ mainProc = NoProc
    /\ monitor = <<>>
    /\ exitCode = -1

YtIdle ==
    /\ ytPc = "idle"
    /\ ytInterval = 0
    /\ ytUrl = NoneVal
    /\ ytCap = 0
    /\ ytCaps = <<>>
    /\ ytKey = -1
    /\ ytUnpolled = 0

FarmIdle == db = <<>> /\ addLog = <<>>

ScanIdle ==
    /\ scanPc = "idle"
    /\ scanTarget = 0
    /\ collected_streams = {}
    /\ local_streams = <<>>
    /\ scanLog = <<>>

RunIdle ==
    /\ auditCams = <<>>
    /\ auditTasks = <<>>
    /\ auditResults = <<>>
    /\ auditPc = "idle"

Init ==
    /\ interval \in Intervals
    /\ youtube_id \in {NoneVal, <<"vid">>}
    /\ source = IF youtube_id = NoneVal THEN <<"video.mp4">> ELSE Url0
    /\ cap = 0
    /\ caps = <<>>
    /\ window = "none"
    /\ pc = "init"
    /\ clock = Epoch
    /\ current_time = 0
    /\ last_time = 0
    /\ consecutive_failures = 0
    /\ ret = FALSE
    /\ frame = 0
    /\ pendingKey = -1
    /\ displayed = 0
    /\ saved = 0
    /\ lastMsg = "none"
    /\ stopReason = "none"
    /\ prevStreak = 0
    /\ sampled = "none"
    /\ healLog = <<>>
    /\ resolved = NoneVal
    /\ unpolledReads = 0
    /\ frozenRun = 0
    /\ atEnd = FALSE
    /\ warned = 0
    /\ lastReadAt = 0
    /\ AuditIdle
    /\ MainIdle
    /\ YtIdle
    /\ FarmIdle
    /\ ScanIdle
    /\ RunIdle

\* VideoMonitor._init_capture: the new value of self.cap
InitCaptureResult(ok, n) == IF ok THEN n ELSE 0

\* VideoMonitor.__init__
Construct ==
    /\ pc = "init"
    /\ \E ok \in BOOLEAN :
         /\ caps' = Append(caps, NewCapture(source, ok))
         /\ cap' = InitCaptureResult(ok, Len(caps) + 1)
         /\ lastMsg' = IF ok THEN lastMsg ELSE "error_open"
    /\ window' = "open"
    /\ pc' = "play"
    /\ UNCHANGED << otherVars, warned, lastReadAt, atEnd, interval, youtube_id, source, clock, current_time, last_time,
                    consecutive_failures, ret, frame, pendingKey, displayed, saved,
                    stopReason, prevStreak, sampled, healLog, resolved,
                    unpolledReads, frozenRun >>

\* PlayEnter without the guard of lines 74-76
PlayEnter_NoGuard ==
    /\ pc = "play"
    /\ lastMsg' = "start"
    /\ last_time' = 0
    /\ consecutive_failures' = 0
    /\ pc' = "top"
    /\ UNCHANGED << otherVars, warned, lastReadAt, atEnd, interval, youtube_id, source,
                    cap, caps, window, clock, current_time, ret, frame, pendingKey,
                    displayed, saved, stopReason, prevStreak, sampled, healLog,
                    resolved, unpolledReads, frozenRun >>

\* VideoMonitor.play, entry: the guard on self.cap and the locals
PlayEnter ==
    /\ pc = "play"
    /\ IF cap = 0
       THEN /\ lastMsg' = "error_source"
            /\ stopReason' = "source_unavailable"
            /\ pc' = "done"
            /\ UNCHANGED << last_time, consecutive_failures >>
       ELSE /\ lastMsg' = "start"
            /\ last_time' = 0
            /\ consecutive_failures' = 0
            /\ pc' = "top"
            /\ UNCHANGED stopReason
    /\ UNCHANGED << otherVars, warned, lastReadAt, atEnd, interval, youtube_id, source, cap, caps, window, clock,
                    current_time, ret, frame, pendingKey, displayed, saved,
                    prevStreak, sampled, healLog, resolved, unpolledReads,
                    frozenRun >>

(* ------------------------------ the loop ------------------------------- *)

\* line 97: is_healthy = check_stream_health(frame) if ret else False
is_healthy(r, f) == IF r THEN check_stream_health(f) ELSE FALSE

\* line 99: if not ret or not is_healthy
Degraded(r, f) == ~r \/ ~is_healthy(r, f)

\* HealingDue with the threshold one too low
HealingDue_Early(n) == n >= FailureThreshold - 1

\* HealingDue with the threshold one too high
HealingDue_Late(n) == n > FailureThreshold

\* line 104: if consecutive_failures >= 3
HealingDue(n) == n >= FailureThreshold

\* SampleOutcome without the reset of line 126
SampleOutcome_NoReset(n, r, f) ==
    IF Degraded(r, f)
    THEN [streak |-> n + 1, next |-> IF HealingDue(n + 1) THEN "heal" ELSE "top"]
    ELSE [streak |-> n, next |-> "show"]

\* SampleOutcome leaving the loop on the first degraded sample
SampleOutcome_FailFast(n, r, f) ==
    IF Degraded(r, f)
    THEN [streak |-> n + 1, next |-> "finally"]
    ELSE [streak |-> 0, next |-> "show"]

\* lines 97-127: what one sample does to the streak and where control goes
SampleOutcome(n, r, f) ==
    IF Degraded(r, f)
    THEN [streak |-> n + 1, next |-> IF HealingDue(n + 1) THEN "heal" ELSE "top"]
    ELSE [streak |-> 0, next |-> "show"]

\* history: stalled frames in a row, counted up to the threshold
FrozenRunAfter(n, f) ==
    IF check_health(f) # "FROZEN/NOISE" THEN 0
    ELSE IF n < FailureThreshold THEN n + 1 ELSE n

\* IntervalRunning with the test of line 89 left out
IntervalRunning_Never(now, last, iv) == FALSE

\* line 89: if (current_time - last_time) < interval
IntervalRunning(now, last, iv) == (now - last) < iv

\* WarningCount printing the streak before the increment of line 100
WarningCount_Before(n, r, f) == IF Degraded(r, f) THEN n ELSE 0

\* lines 100-102: the count in the warning a sample prints (0: no warning)
WarningCount(n, r, f) == IF Degraded(r, f) THEN n + 1 ELSE 0

\* lines 86-92: the loop top, with the poll taken while the interval runs
LoopTop ==
    /\ pc = "top"
    /\ current_time' = clock
    /\ IF IntervalRunning(clock, last_time, interval)
       THEN /\ \E d \in 0..MaxStep : Elapse(d)
            /\ pendingKey' = -1
            /\ unpolledReads' = 0
            /\ IF Mask(pendingKey) = OrdQ
               THEN pc' = "finally" /\ stopReason' = "quit"
               ELSE pc' = "top" /\ UNCHANGED stopReason
       ELSE /\ pc' = "read"
            /\ UNCHANGED << clock, pendingKey, unpolledReads, stopReason >>
    /\ UNCHANGED << otherVars, warned, lastReadAt, atEnd, interval, youtube_id, source, cap, caps, window, last_time,
                    consecutive_failures, ret, frame, displayed, saved, lastMsg,
                    prevStreak, sampled, healLog, resolved, frozenRun >>

\* line 94: cap.read() gives no frame once a file is at its end
ReadResults == IF atEnd THEN {FALSE} ELSE BOOLEAN

\* line 94: a failed read of a local file may be its end of stream
EndAfterRead(r) ==
    IF r \/ Truthy(youtube_id) THEN {FALSE}
    ELSE IF atEnd THEN {TRUE} ELSE BOOLEAN

\* lines 94-127: read one frame, classify it, count it
Sample ==
    /\ pc = "read"
    /\ \E r \in ReadResults :
       \E f \in (IF r THEN FeedFrames ELSE {0}) :
         LET o == SampleOutcome(consecutive_failures, r, f) IN
         /\ ret' = r
         /\ frame' = f
         /\ consecutive_failures' = o.streak
         /\ pc' = o.next
         /\ last_time' = IF o.next = "heal" THEN last_time ELSE current_time
         /\ lastMsg' = IF o.next = "show" THEN lastMsg
                       ELSE IF o.next = "heal" THEN "auto_healing"
                       ELSE "warning"
         /\ sampled' = IF o.next = "show" THEN "healthy" ELSE "degraded"
         /\ warned' = WarningCount(consecutive_failures, r, f)
         /\ frozenRun' = FrozenRunAfter(frozenRun, f)
         /\ atEnd' \in EndAfterRead(r)
    /\ \E d \in 0..MaxStep : Elapse(d)
    /\ prevStreak' = consecutive_failures
    /\ unpolledReads' = IF unpolledReads < 2 THEN unpolledReads + 1 ELSE 2
    /\ lastReadAt' = current_time
    /\ UNCHANGED << otherVars, interval, youtube_id, source, cap, caps,
                    window, current_time, pendingKey, displayed, saved, stopReason,
                    healLog, resolved >>

\* Show with the save key falling into the quit branch
Show_SaveQuits ==
    /\ pc = "show"
    /\ displayed' = frame
    /\ pendingKey' = -1
    /\ unpolledReads' = 0
    /\ IF Mask(pendingKey) \in {OrdQ, OrdS}
       THEN /\ pc' = "finally"
            /\ stopReason' = "quit"
       ELSE /\ pc' = "top"
            /\ UNCHANGED stopReason
    /\ UNCHANGED << otherVars, warned, lastReadAt, atEnd, interval, youtube_id, source,
                    cap, caps, window, clock, current_time, last_time,
                    consecutive_failures, ret, frame, saved, lastMsg, prevStreak,
                    sampled, healLog, resolved, frozenRun >>

\* lines 130-151: show the frame, then take one key
Show ==
    /\ pc = "show"
    /\ displayed' = frame
    /\ pendingKey' = -1
    /\ unpolledReads' = 0
    /\ IF Mask(pendingKey) = OrdQ
       THEN /\ pc' = "finally"
            /\ stopReason' = "quit"
            /\ UNCHANGED << saved, lastMsg >>
       ELSE /\ pc' = "top"
            /\ UNCHANGED stopReason
            /\ IF Mask(pendingKey) = OrdS
               THEN saved' = frame /\ lastMsg' = "saved"
               ELSE UNCHANGED << saved, lastMsg >>
    /\ UNCHANGED << otherVars, warned, lastReadAt, atEnd, interval, youtube_id, source, cap, caps, window, clock,
                    current_time, last_time, consecutive_failures, ret, frame,
                    prevStreak, sampled, healLog, resolved, frozenRun >>

(* ------------------------------ healing -------------------------------- *)

\* ResolvedSource with the assignment of line 110 left out
ResolvedSource_Kept(new_url, old) == old

\* line 110: self.source = new_url
ResolvedSource(new_url, old) == new_url

\* NeedsResolve asking the resolver for every session
NeedsResolve_Always(id) == TRUE

\* line 107: if self.youtube_id
NeedsResolve(id) == Truthy(id)

\* lines 105-113: re-resolve the address when the session has an identifier
HealResolve ==
    /\ pc = "heal"
    /\ frozenRun' = 0
    /\ IF NeedsResolve(youtube_id)
       THEN \E proc \in ProcOutcomes :
              LET new_url == get_live_url(proc) IN
              /\ healLog' = <<"resolve">>
              /\ resolved' = new_url
              /\ IF Truthy(new_url)
                 THEN /\ source' = ResolvedSource(new_url, source)
                      /\ pc' = "release"
                      /\ UNCHANGED << lastMsg, stopReason >>
                 ELSE /\ lastMsg' = "error_resolve"
                      /\ stopReason' = "resolve_failed"
                      /\ pc' = "finally"
                      /\ UNCHANGED source
       ELSE /\ healLog' = <<>>
            /\ resolved' = NoneVal
            /\ pc' = "release"
            /\ UNCHANGED << source, lastMsg, stopReason >>
    /\ UNCHANGED << otherVars, warned, lastReadAt, atEnd, interval, youtube_id, cap, caps, window, clock, current_time,
                    last_time, consecutive_failures, ret, frame, pendingKey,
                    displayed, saved, prevStreak, sampled, unpolledReads >>

\* HealRelease with the call to release() left out
HealRelease_Skipped ==
    /\ pc = "release"
    /\ healLog' = Append(healLog, "release")
    /\ pc' = "reopen"
    /\ UNCHANGED << otherVars, warned, lastReadAt, atEnd, interval, youtube_id, source, cap, caps, window, clock,
                    current_time, last_time, consecutive_failures, ret, frame,
                    pendingKey, displayed, saved, lastMsg, stopReason, prevStreak,
                    sampled, resolved, unpolledReads, frozenRun >>

\* line 115: self.cap.release()
HealRelease ==
    /\ pc = "release"
    /\ caps' = [caps EXCEPT ![cap] = Release(@)]
    /\ healLog' = Append(healLog, "release")
    /\ pc' = "reopen"
    /\ UNCHANGED << otherVars, warned, lastReadAt, atEnd, interval, youtube_id, source, cap, window, clock, current_time,
                    last_time, consecutive_failures, ret, frame, pendingKey,
                    displayed, saved, lastMsg, stopReason, prevStreak, sampled,
                    resolved, unpolledReads, frozenRun >>

\* StreakAfterReopen with the reset of line 120 left out
StreakAfterReopen_Kept(ok, n) == n

\* lines 117-120: the streak is reset only when the new capture opened
StreakAfterReopen(ok, n) == IF ok THEN 0 ELSE n

\* HealReopen trying the open again when it failed
HealReopen_Retry ==
    /\ pc = "reopen"
    /\ healLog' = Append(healLog, "open")
    /\ atEnd' = FALSE
    /\ \E ok \in BOOLEAN :
         /\ caps' = Append(caps, NewCapture(source, ok))
         /\ cap' = InitCaptureResult(ok, Len(caps) + 1)
         /\ consecutive_failures' = StreakAfterReopen(ok, consecutive_failures)
         /\ pc' = IF ok THEN "sleep" ELSE "reopen"
         /\ UNCHANGED << lastMsg, stopReason >>
    /\ UNCHANGED << otherVars, warned, lastReadAt, interval, youtube_id, source, window,
                    clock, current_time, last_time, ret, frame, pendingKey,
                    displayed, saved, prevStreak, sampled, resolved, unpolledReads,
                    frozenRun >>

\* lines 116-120: self.cap = self._init_capture() and the check on it
HealReopen ==
    /\ pc = "reopen"
    /\ healLog' = Append(healLog, "open")
    /\ atEnd' = FALSE
    /\ \E ok \in BOOLEAN :
         /\ caps' = Append(caps, NewCapture(source, ok))
         /\ cap' = InitCaptureResult(ok, Len(caps) + 1)
         /\ consecutive_failures' = StreakAfterReopen(ok, consecutive_failures)
         /\ IF ok
            THEN /\ pc' = "sleep"
                 /\ UNCHANGED << lastMsg, stopReason >>
            ELSE /\ lastMsg' = "error_reopen"
                 /\ stopReason' = "reopen_failed"
                 /\ pc' = "finally"
    /\ UNCHANGED << otherVars, warned, lastReadAt, interval, youtube_id, source, window, clock, current_time,
                    last_time, ret, frame, pendingKey, displayed, saved, prevStreak,
                    sampled, resolved, unpolledReads, frozenRun >>

\* lines 121-124: time.sleep(2); last_time = current_time; continue
HealSleep ==
    /\ pc = "sleep"
    /\ Elapse(HealPause)
    /\ last_time' = current_time
    /\ pc' = "top"
    /\ UNCHANGED << otherVars, warned, lastReadAt, atEnd, interval, youtube_id, source, cap, caps, window, current_time,
                    consecutive_failures, ret, frame, pendingKey, displayed, saved,
                    lastMsg, stopReason, prevStreak, sampled, healLog, resolved,
                    unpolledReads, frozenRun >>

(* ------------------------------ shutdown ------------------------------- *)

\* positions inside the try block of play
InTry == {"top", "read", "show", "heal", "release", "reopen", "sleep"}

\* lines 153-154: Ctrl-C raises KeyboardInterrupt at any point of the try block
Interrupt ==
    /\ pc \in InTry
    /\ lastMsg' = "info_closing"
    /\ stopReason' = "interrupt"
    /\ pc' = "finally"
    /\ UNCHANGED << otherVars, warned, lastReadAt, atEnd, interval, youtube_id, source, cap, caps, window, clock,
                    current_time, last_time, consecutive_failures, ret, frame,
                    pendingKey, displayed, saved, prevStreak, sampled, healLog,
                    resolved, unpolledReads, frozenRun >>

\* Finally without the release of lines 156-157
Finally_NoRelease ==
    /\ pc = "finally"
    /\ window' = "destroyed"
    /\ pc' = "done"
    /\ UNCHANGED << otherVars, warned, lastReadAt, atEnd, interval, youtube_id, source, cap, caps, clock, current_time,
                    last_time, consecutive_failures, ret, frame, pendingKey,
                    displayed, saved, lastMsg, stopReason, prevStreak, sampled,
                    healLog, resolved, unpolledReads, frozenRun >>

\* lines 155-158: if self.cap: self.cap.release(); cv2.destroyAllWindows()
Finally ==
    /\ pc = "finally"
    /\ caps' = IF cap # 0 THEN [caps EXCEPT ![cap] = Release(@)] ELSE caps
    /\ window' = "destroyed"
    /\ pc' = "done"
    /\ UNCHANGED << otherVars, warned, lastReadAt, atEnd, interval, youtube_id, source, cap, clock, current_time,
                    last_time, consecutive_failures, ret, frame, pendingKey,
                    displayed, saved, lastMsg, stopReason, prevStreak, sampled,
                    healLog, resolved, unpolledReads, frozenRun >>

\* the operator presses a key in the window
PressKey ==
    /\ window = "open"
    /\ pc # "done"
    /\ \E k \in KeyCodes \ {-1} : pendingKey' = k
    /\ UNCHANGED << otherVars, warned, lastReadAt, atEnd, interval, youtube_id, source, cap, caps, window, pc, clock,
                    current_time, last_time, consecutive_failures, ret, frame,
                    displayed, saved, lastMsg, stopReason, prevStreak, sampled,
                    healLog, resolved, unpolledReads, frozenRun >>

(* ---------------------------- the auditor ------------------------------ *)

\* gray levels of the frames given to the classifier
AuditLevels == {0, 8, 9, 10, 11, 12, 14, 200}

\* audit_network.py line 51: the frames cap.read() may hand to check_health
AuditFrames ==
    { <<Run(v1, n1), Run(v2, n2)>> :
        v1 \in AuditLevels, v2 \in AuditLevels, n1 \in 1..MaxRun, n2 \in 1..MaxRun }

\* the monitor before construction, for a run of the auditor alone
MonitorIdle ==
    /\ interval = 0
    /\ youtube_id = NoneVal
    /\ source = <<"video.mp4">>
    /\ cap = 0
    /\ caps = <<>>
    /\ window = "none"
    /\ pc = "init"
    /\ clock = Epoch
    /\ current_time = 0
    /\ last_time = 0
    /\ consecutive_failures = 0
    /\ ret = FALSE
    /\ frame = 0
    /\ pendingKey = -1
    /\ displayed = 0
    /\ saved = 0
    /\ lastMsg = "none"
    /\ stopReason = "none"
    /\ prevStreak = 0
    /\ sampled = "none"
    /\ healLog = <<>>
    /\ resolved = NoneVal
    /\ unpolledReads = 0
    /\ frozenRun = 0
    /\ atEnd = FALSE
    /\ warned = 0
    /\ lastReadAt = 0

InitAudit ==
    /\ MonitorIdle
    /\ ScanIdle
    /\ RunIdle
    /\ MainIdle
    /\ YtIdle
    /\ FarmIdle
    /\ auditFrame \in AuditFrames \cup {NoFrame}
    /\ auditStatus = "none"

\* audit_network.py line 56: status = self.check_health(frame)
AuditCheck ==
    /\ auditStatus = "none"
    /\ auditStatus' = check_health_frame(auditFrame)
    /\ UNCHANGED << auditFrame, scanVars, runVars, monitorVars, mainVars, ytVars, farmVars >>

NextAudit == AuditCheck

SpecAudit == InitAudit /\ [][NextAudit]_vars

(* ---------------------------- the farmers ------------------------------ *)

\* a registry entry without the key 'id'
NoId == -1

\* a registry entry: only 'url' and 'id' are read by the add functions
Cam(url, id) == [url |-> url, id |-> id]

FarmUrls == {"u1", "u2", "u3"}

\* what load_db may return: lists whose URLs are pairwise distinct
InitialDbs ==
    { <<>>,
      <<Cam("u1", NoId)>>,
      <<Cam("u1", 1000)>>,
      <<Cam("u1", 998)>>,
      <<Cam("u1", 5), Cam("u2", 1003)>>,
      <<Cam("u1", 1003), Cam("u2", NoId)>> }

\* any(c['url'] == camera['url'] for c in db)
HasUrl(d, url) == \E i \in DOMAIN d : d[i].url = url

\* c.get('id', 999)
IdOf(c) == IF c.id = NoId THEN DefaultId ELSE c.id

\* max(c.get('id', 999) for c in db), db not empty
MaxIdOf(d) ==
    CHOOSE m \in {IdOf(d[i]) : i \in DOMAIN d} :
       \A i \in DOMAIN d : IdOf(d[i]) <= m

\* NextIdOmni counting the entries instead of taking the largest id
NextIdOmni_Count(d) == FirstId + Len(d)

\* farm_omni.py lines 77-80
NextIdOmni(d) == IF d = <<>> THEN FirstId ELSE MaxIdOf(d) + 1

\* farm_transito.py line 89: max(..., default=999) + 1
NextIdTransito(d) == (IF d = <<>> THEN DefaultId ELSE MaxIdOf(d)) + 1

\* OmniFarmer.add_camera_to_db: the flag returned, the id given, the list after
add_camera_to_db(url, d) ==
    IF HasUrl(d, url)
    THEN [ok |-> FALSE, id |-> NoId, db |-> d]
    ELSE [ok |-> TRUE, id |-> NextIdOmni(d),
          db |-> Append(d, Cam(url, NextIdOmni(d)))]

\* add_cam without the duplicate test of lines 86-88
add_cam_NoCheck(url, d) ==
    [ok |-> TRUE, id |-> NextIdTransito(d),
     db |-> Append(d, Cam(url, NextIdTransito(d)))]

\* farm_transito.add_cam
add_cam(url, d) ==
    IF HasUrl(d, url)
    THEN [ok |-> FALSE, id |-> NoId, db |-> d]
    ELSE [ok |-> TRUE, id |-> NextIdTransito(d),
          db |-> Append(d, Cam(url, NextIdTransito(d)))]

InitFarm ==
    /\ MonitorIdle
    /\ ScanIdle
    /\ RunIdle
    /\ AuditIdle
    /\ MainIdle
    /\ YtIdle
    /\ db \in InitialDbs
    /\ addLog = <<>>

\* farm_omni.py line 126: self.add_camera_to_db(camera, db)
AddOmni ==
    /\ Len(addLog) < MaxAdds
    /\ \E url \in FarmUrls :
         LET r == add_camera_to_db(url, db) IN
         /\ db' = r.db
         /\ addLog' = Append(addLog, [by |-> "omni", url |-> url, ok |-> r.ok, id |-> r.id])
    /\ UNCHANGED << scanVars, runVars, monitorVars, auditVars, mainVars, ytVars >>

\* farm_transito.py lines 150 and 162: add_cam(cam, db)
AddTransito ==
    /\ Len(addLog) < MaxAdds
    /\ \E url \in FarmUrls :
         LET r == add_cam(url, db) IN
         /\ db' = r.db
         /\ addLog' = Append(addLog, [by |-> "transito", url |-> url, ok |-> r.ok, id |-> r.id])
    /\ UNCHANGED << scanVars, runVars, monitorVars, auditVars, mainVars, ytVars >>

NextFarm == AddOmni \/ AddTransito

SpecFarm == InitFarm /\ [][NextFarm]_vars

(* --------------------------- run_full_audit ---------------------------- *)

\* what auditing a camera meets: an exception inside the try block (yt-dlp,
\* OpenCV), a read that gives no frame, or a frame
Meets == {"raise", "offline", "black", "healthy"}

\* a camera of omni_cams.json at position i: its 'id' (the farmers allow
\* entries without one, c.get('id', 999)) and what auditing it meets
AuditCam(i, hasId, meets) ==
    [id |-> IF hasId THEN FirstId + i ELSE NoId, meets |-> meets]

\* load_cams: the lists of cameras audited
CamLists ==
    UNION { { [i \in 1..n |-> AuditCam(i, h[i], m[i])] :
                h \in [1..n -> BOOLEAN], m \in [1..n -> Meets] } :
            n \in 1..MaxCams }

\* the frame cap.read() delivered at line 51
FrameMet(meets) ==
    IF meets = "black" THEN <<Run(0, 1), Run(8, 1)>> ELSE <<Run(60, 1), Run(180, 1)>>

\* audit_camera raised instead of returning a result
Raised == [id |-> NoId, status |-> "RAISED"]

\* lines 67-73: the handler builds its result from cam['id']
ErrorResult(cam) ==
    IF cam.id = NoId THEN Raised ELSE [id |-> cam.id, status |-> "ERROR"]

\* NetworkAuditor.audit_camera, lines 39-73: cam['id'] is read at line 61
\* inside the try block and again by the handler
audit_camera(cam) ==
    IF cam.meets = "raise" \/ cam.id = NoId
    THEN ErrorResult(cam)
    ELSE [id |-> cam.id,
          status |-> IF cam.meets = "offline" THEN "OFFLINE"
                     ELSE check_health_frame(FrameMet(cam.meets))]

\* a call of audit_camera submitted to the pool
Task(state, result) == [state |-> state, result |-> result]

\* lines 76-84: cams loaded, one call per camera submitted by executor.map
InitRun ==
    /\ MonitorIdle
    /\ ScanIdle
    /\ AuditIdle
    /\ MainIdle
    /\ YtIdle
    /\ FarmIdle
    /\ auditCams \in CamLists
    /\ auditTasks = [i \in 1..Len(auditCams) |-> Task("queued", Raised)]
    /\ auditResults = <<>>
    /\ auditPc = "collect"

RunningTasks == {i \in DOMAIN auditTasks : auditTasks[i].state = "running"}
QueuedTasks == {i \in DOMAIN auditTasks : auditTasks[i].state = "queued"}

\* a free worker thread takes the oldest call from the pool's queue; the
\* calls still queued are cancelled once the caller has left executor.map
TaskStart ==
    /\ auditPc = "collect"
    /\ QueuedTasks # {}
    /\ Cardinality(RunningTasks) < MaxWorkers
    /\ LET i == CHOOSE k \in QueuedTasks : \A m \in QueuedTasks : k <= m IN
         auditTasks' = [auditTasks EXCEPT ![i].state = "running"]
    /\ UNCHANGED << auditCams, auditResults, auditPc, scanVars, monitorVars,
                    auditVars, mainVars, ytVars, farmVars >>

\* a worker thread finishes its call of audit_camera, in any order
TaskFinish ==
    /\ \E i \in RunningTasks :
         auditTasks' = [auditTasks EXCEPT ![i] = Task("done", audit_camera(auditCams[i]))]
    /\ UNCHANGED << auditCams, auditResults, auditPc, scanVars, monitorVars,
                    auditVars, mainVars, ytVars, farmVars >>

\* line 84: list(...) takes the next result in input order when its call is
\* done; a call that raised re-raises here and run_full_audit is left
Collect ==
    /\ auditPc = "collect"
    /\ LET k == Len(auditResults) + 1 IN
         IF k > Len(auditCams)
         THEN /\ auditPc' = "report"
              /\ UNCHANGED auditResults
         ELSE /\ auditTasks[k].state = "done"
              /\ IF auditTasks[k].result = Raised
                 THEN /\ auditPc' = "aborted"
                      /\ UNCHANGED auditResults
                 ELSE /\ auditResults' = Append(auditResults, auditTasks[k].result)
                      /\ UNCHANGED auditPc
    /\ UNCHANGED << auditCams, auditTasks, scanVars, monitorVars,
                    auditVars, mainVars, ytVars, farmVars >>

\* line 86: self.report(results)
Report ==
    /\ auditPc = "report"
    /\ auditPc' = "done"
    /\ UNCHANGED << auditCams, auditTasks, auditResults, scanVars, monitorVars,
                    auditVars, mainVars, ytVars, farmVars >>

NextRun ==
    \/ TaskStart
    \/ TaskFinish
    \/ Collect
    \/ Report

SpecRun == InitRun /\ [][NextRun]_vars

(* ------------------------- farm_transito.main -------------------------- *)

\* a request URL that matches neither hls_pattern nor mjpeg_pattern
PageUrl == "page"

\* line 116: hls_pattern.search(url) or mjpeg_pattern.search(url)
IsStream(url) == url \in FarmUrls

\* the scan state touched by one URL: the shared set, the list, the history
ScanState(seen, local, log) == [seen |-> seen, local |-> local, log |-> log]

\* CollectOne without the insertion of lines 118 and 132
CollectOne_NoRecord(url, st, t) ==
    IF url \notin st.seen
    THEN ScanState(st.seen, Append(st.local, url),
                   Append(st.log, [target |-> t, url |-> url, fresh |-> TRUE]))
    ELSE ScanState(st.seen, st.local,
                   Append(st.log, [target |-> t, url |-> url, fresh |-> FALSE]))

\* lines 117-119 and 131-133: test, insert and append, with no await between
CollectOne(url, st, t) ==
    IF url \notin st.seen
    THEN ScanState(st.seen \cup {url}, Append(st.local, url),
                   Append(st.log, [target |-> t, url |-> url, fresh |-> TRUE]))
    ELSE ScanState(st.seen, st.local,
                   Append(st.log, [target |-> t, url |-> url, fresh |-> FALSE]))

RECURSIVE CollectAll(_, _, _)
\* lines 130-134: the loop over hls_pattern.findall(content)
CollectAll(matches, st, t) ==
    IF matches = <<>> THEN st
    ELSE CollectAll(Tail(matches), CollectOne(Head(matches), st, t), t)

RECURSIVE AddAll(_, _)
\* lines 143-151: add_cam for every stream of the scan, on the shared db
AddAll(streams, st) ==
    IF streams = <<>> THEN st
    ELSE LET r == add_cam(Head(streams), st.db) IN
         AddAll(Tail(streams),
                [db |-> r.db,
                 log |-> Append(st.log, [by |-> "transito", url |-> Head(streams),
                                         ok |-> r.ok, id |-> r.id])])

\* lines 176-186: db loaded, the shared set empty, the first target's scan
InitScan ==
    /\ MonitorIdle
    /\ RunIdle
    /\ AuditIdle
    /\ MainIdle
    /\ YtIdle
    /\ db \in InitialDbs
    /\ addLog = <<>>
    /\ scanPc = "load"
    /\ scanTarget = 1
    /\ collected_streams = {}
    /\ local_streams = <<>>
    /\ scanLog = <<>>

\* lines 114-120: the request callback, run by the event loop while the scan
\* is suspended in goto, wait_for_timeout, content or close
OnRequest ==
    /\ scanPc \in {"load", "close"}
    /\ Len(scanLog) < MaxEvents
    /\ \E url \in FarmUrls \cup {PageUrl} :
         IF IsStream(url)
         THEN LET st == CollectOne(url, ScanState(collected_streams, local_streams, scanLog),
                                   scanTarget) IN
              /\ collected_streams' = st.seen
              /\ local_streams' = st.local
              /\ scanLog' = st.log
         ELSE /\ scanLog' = Append(scanLog, [target |-> scanTarget, url |-> url,
                                             fresh |-> FALSE])
              /\ UNCHANGED << collected_streams, local_streams >>
    /\ UNCHANGED << scanPc, scanTarget, farmVars, runVars, monitorVars, auditVars,
                    mainVars, ytVars >>

\* lines 129-134: the rendered HTML is searched once the page has loaded
ScanHtml ==
    /\ scanPc = "load"
    /\ \E n \in 0..MaxMatches :
         /\ Len(scanLog) + n <= MaxEvents
         /\ \E matches \in [1..n -> FarmUrls] :
              LET st == CollectAll(matches,
                                   ScanState(collected_streams, local_streams, scanLog),
                                   scanTarget) IN
              /\ collected_streams' = st.seen
              /\ local_streams' = st.local
              /\ scanLog' = st.log
    /\ scanPc' = "close"
    /\ UNCHANGED << scanTarget, farmVars, runVars, monitorVars, auditVars,
                    mainVars, ytVars >>

\* lines 136-139: browser.close() returns, or an await of the scan raised
ScanClose ==
    /\ scanPc \in {"load", "close"}
    /\ scanPc' = "add"
    /\ UNCHANGED << scanTarget, collected_streams, local_streams, scanLog, farmVars,
                    runVars, monitorVars, auditVars, mainVars, ytVars >>

\* lines 141-153 and 185-186: the streams of this scan go to db, then the
\* next target is scanned with a new local_streams
ScanAdd ==
    /\ scanPc = "add"
    /\ LET st == AddAll(local_streams, [db |-> db, log |-> addLog]) IN
         /\ db' = st.db
         /\ addLog' = st.log
    /\ local_streams' = <<>>
    /\ scanTarget' = scanTarget + 1
    /\ scanPc' = IF scanTarget = NumTargets THEN "done" ELSE "load"
    /\ UNCHANGED << collected_streams, scanLog, runVars, monitorVars, auditVars,
                    mainVars, ytVars >>

NextScan ==
    \/ OnRequest
    \/ ScanHtml
    \/ ScanClose
    \/ ScanAdd

SpecScan == InitScan /\ [][NextScan]_vars

(* ----------------------------- main.py main ---------------------------- *)

NoArgs == [source |-> NoneVal, cam |-> NoneVal, id |-> NoneVal, list |-> FALSE]

\* lines 162-171: --source, --cam and --id exclude one another
ArgSets ==
    {NoArgs, [NoArgs EXCEPT !.list = TRUE]}
    \cup {[NoArgs EXCEPT !.source = v] : v \in {<<"video.mp4">>, <<>>}}
    \cup {[NoArgs EXCEPT !.cam = q] : q \in Queries}
    \cup {[NoArgs EXCEPT !.id = v] : v \in {<<"vid">>, <<>>}}

InitMain ==
    /\ MonitorIdle
    /\ ScanIdle
    /\ RunIdle
    /\ AuditIdle
    /\ YtIdle
    /\ FarmIdle
    /\ args \in ArgSets
    /\ registry \in Registries
    /\ mainPc = "start"
    /\ cam_data = NoCam
    /\ stream_id = NoneVal
    /\ video_source = NoneVal
    /\ mainProc = NoProc
    /\ monitor = <<>>
    /\ exitCode = -1

\* lines 175-177
MainList ==
    /\ mainPc = "start"
    /\ args.list
    /\ exitCode' = 0
    /\ mainPc' = "exit"
    /\ UNCHANGED << args, registry, cam_data, stream_id, video_source, mainProc,
                    monitor, scanVars, runVars, monitorVars, auditVars, ytVars, farmVars >>

\* lines 179-196: choose the source or the identifier, or exit
MainSelect ==
    /\ mainPc = "start"
    /\ ~args.list
    /\ IF Truthy(args.source)
       THEN /\ video_source' = args.source
            /\ mainPc' = "resolve"
            /\ UNCHANGED << cam_data, stream_id, exitCode >>
       ELSE IF Truthy(args.cam)
       THEN /\ cam_data' = find_camera(registry, args.cam)
            /\ IF cam_data' # NoCam
               THEN /\ stream_id' = cam_data'.id
                    /\ mainPc' = "resolve"
                    /\ UNCHANGED exitCode
               ELSE /\ exitCode' = 1
                    /\ mainPc' = "exit"
                    /\ UNCHANGED stream_id
            /\ UNCHANGED video_source
       ELSE IF Truthy(args.id)
       THEN /\ stream_id' = args.id
            /\ mainPc' = "resolve"
            /\ UNCHANGED << cam_data, video_source, exitCode >>
       ELSE /\ exitCode' = 1
            /\ mainPc' = "exit"
            /\ UNCHANGED << cam_data, stream_id, video_source >>
    /\ UNCHANGED << args, registry, mainProc, monitor,
                    scanVars, runVars, monitorVars, auditVars, ytVars, farmVars >>

\* SourceUsable without the test of line 201
SourceUsable_Always(v) == TRUE

\* line 201: if not video_source
SourceUsable(v) == Truthy(v)

\* lines 199-203: resolve the identifier, exit when there is no address
MainResolve ==
    /\ mainPc = "resolve"
    /\ IF Truthy(stream_id)
       THEN \E proc \in ProcOutcomes :
              /\ mainProc' = proc
              /\ video_source' = get_live_url(proc)
              /\ IF SourceUsable(video_source')
                 THEN mainPc' = "monitor" /\ UNCHANGED exitCode
                 ELSE mainPc' = "exit" /\ exitCode' = 1
       ELSE /\ mainPc' = "monitor"
            /\ UNCHANGED << mainProc, video_source, exitCode >>
    /\ UNCHANGED << args, registry, cam_data, stream_id, monitor,
                    scanVars, runVars, monitorVars, auditVars, ytVars, farmVars >>

\* lines 206-207: VideoMonitor(video_source, youtube_id=stream_id) and play
MainMonitor ==
    /\ mainPc = "monitor"
    /\ monitor' = Append(monitor, [source |-> video_source, youtube_id |-> stream_id])
    /\ mainPc' = "play"
    /\ UNCHANGED << args, registry, cam_data, stream_id, video_source, mainProc,
                    exitCode, scanVars, runVars, monitorVars, auditVars, ytVars, farmVars >>

NextMain ==
    \/ MainList
    \/ MainSelect
    \/ MainResolve
    \/ MainMonitor

SpecMain == InitMain /\ [][NextMain]_vars

(* ------------------------ youtube_stream.main -------------------------- *)

InitYt ==
    /\ MonitorIdle
    /\ ScanIdle
    /\ RunIdle
    /\ AuditIdle
    /\ MainIdle
    /\ FarmIdle
    /\ ytPc = "resolve"
    /\ ytInterval \in 0..1
    /\ ytUrl = NoneVal
    /\ ytCap = 0
    /\ ytCaps = <<>>
    /\ ytKey = -1
    /\ ytUnpolled = 0

\* lines 72-74: stream_url = get_live_url(args.id); exit when there is none
YtResolve ==
    /\ ytPc = "resolve"
    /\ \E proc \in ProcOutcomes :
         /\ ytUrl' = get_live_url(proc)
         /\ ytPc' = IF Truthy(get_live_url(proc)) THEN "open" ELSE "exit"
    /\ UNCHANGED << ytInterval, ytCap, ytCaps, ytKey, ytUnpolled,
                    scanVars, runVars, monitorVars, auditVars, mainVars, farmVars >>

\* lines 78-85: the first capture, exit when it is not opened, else the window
YtOpen ==
    /\ ytPc = "open"
    /\ \E ok \in BOOLEAN :
         /\ ytCaps' = Append(ytCaps, NewCapture(ytUrl, ok))
         /\ ytPc' = IF ok THEN "read" ELSE "exit"
    /\ ytCap' = Len(ytCaps) + 1
    /\ UNCHANGED << ytInterval, ytUrl, ytKey, ytUnpolled,
                    scanVars, runVars, monitorVars, auditVars, mainVars, farmVars >>

\* positions of the try block of lines 89-123
YtInTry == {"read", "release", "sleep", "reresolve", "reopen", "wait"}

\* lines 91-109: read a frame; show and save it, or go to reconnect
YtRead ==
    /\ ytPc = "read"
    /\ \E r \in (IF ytCaps[ytCap].open THEN BOOLEAN ELSE {FALSE}) :
         ytPc' = IF r THEN "wait" ELSE "release"
    /\ ytUnpolled' = IF Mask(ytKey) # OrdQ THEN 0
                      ELSE IF ytUnpolled < 2 THEN ytUnpolled + 1 ELSE 2
    /\ UNCHANGED << ytInterval, ytUrl, ytCap, ytCaps, ytKey,
                    scanVars, runVars, monitorVars, auditVars, mainVars, farmVars >>

\* line 94: cap.release()
YtRelease ==
    /\ ytPc = "release"
    /\ ytCaps' = [ytCaps EXCEPT ![ytCap] = Release(@)]
    /\ ytPc' = "sleep"
    /\ UNCHANGED << ytInterval, ytUrl, ytCap, ytKey, ytUnpolled,
                    scanVars, runVars, monitorVars, auditVars, mainVars, farmVars >>

\* line 95: time.sleep(5)
YtSleep ==
    /\ ytPc = "sleep"
    /\ ytPc' = "reresolve"
    /\ UNCHANGED << ytInterval, ytUrl, ytCap, ytCaps, ytKey, ytUnpolled,
                    scanVars, runVars, monitorVars, auditVars, mainVars, farmVars >>

\* line 96: stream_url = get_live_url(args.id), not tested
YtReResolve ==
    /\ ytPc = "reresolve"
    /\ \E proc \in ProcOutcomes : ytUrl' = get_live_url(proc)
    /\ ytPc' = "reopen"
    /\ UNCHANGED << ytInterval, ytCap, ytCaps, ytKey, ytUnpolled,
                    scanVars, runVars, monitorVars, auditVars, mainVars, farmVars >>

\* line 97: cv2.VideoCapture(stream_url).  Given None the binding either
\* raises (the exception leaves the try block through finally) or builds a
\* capture that is not opened, depending on the OpenCV build; given an empty
\* string it builds a capture that is not opened.
YtReopen ==
    /\ ytPc = "reopen"
    /\ Len(ytCaps) < 1 + MaxReconnects
    /\ \/ /\ ytUrl = NoneVal
          /\ ytPc' = "finally"
          /\ UNCHANGED << ytCap, ytCaps >>
       \/ /\ \E ok \in (IF Truthy(ytUrl) THEN BOOLEAN ELSE {FALSE}) :
               ytCaps' = Append(ytCaps, NewCapture(ytUrl, ok))
          /\ ytCap' = Len(ytCaps) + 1
          /\ ytPc' = "read"
    /\ UNCHANGED << ytInterval, ytUrl, ytKey, ytUnpolled,
                    scanVars, runVars, monitorVars, auditVars, mainVars, farmVars >>

\* lines 114-117: poll with waitKey(100) while the interval runs; with
\* interval 0 the while loop is not entered
YtWait ==
    /\ ytPc = "wait"
    /\ IF ytInterval = 0
       THEN /\ ytPc' = "read"
            /\ UNCHANGED << ytKey, ytUnpolled >>
       ELSE /\ ytKey' = -1
            /\ ytUnpolled' = 0
            /\ IF Mask(ytKey) = OrdQ
               THEN ytPc' = "finally"
               ELSE ytPc' \in {"wait", "read"}
    /\ UNCHANGED << ytInterval, ytUrl, ytCap, ytCaps,
                    scanVars, runVars, monitorVars, auditVars, mainVars, farmVars >>

\* lines 124-125: Ctrl-C anywhere in the try block
YtInterrupt ==
    /\ ytPc \in YtInTry
    /\ ytPc' = "finally"
    /\ UNCHANGED << ytInterval, ytUrl, ytCap, ytCaps, ytKey, ytUnpolled,
                    scanVars, runVars, monitorVars, auditVars, mainVars, farmVars >>

\* lines 126-128: cap.release() and destroyAllWindows()
YtFinally ==
    /\ ytPc = "finally"
    /\ ytCaps' = [ytCaps EXCEPT ![ytCap] = Release(@)]
    /\ ytPc' = "done"
    /\ UNCHANGED << ytInterval, ytUrl, ytCap, ytKey, ytUnpolled,
                    scanVars, runVars, monitorVars, auditVars, mainVars, farmVars >>

\* the operator presses a key in the window
YtPressKey ==
    /\ ytPc \in YtInTry
    /\ \E k \in {OrdQ, OrdS} : ytKey' = k
    /\ UNCHANGED << ytPc, ytInterval, ytUrl, ytCap, ytCaps, ytUnpolled,
                    scanVars, runVars, monitorVars, auditVars, mainVars, farmVars >>

NextYt ==
    \/ YtResolve
    \/ YtOpen
    \/ YtRead
    \/ YtRelease
    \/ YtSleep
    \/ YtReResolve
    \/ YtReopen
    \/ YtWait
    \/ YtInterrupt
    \/ YtFinally
    \/ YtPressKey

SpecYt == InitYt /\ [][NextYt]_vars

Next ==
    \/ Construct
    \/ PlayEnter
    \/ LoopTop
    \/ Sample
    \/ Show
    \/ HealResolve
    \/ HealRelease
    \/ HealReopen
    \/ HealSleep
    \/ Interrupt
    \/ Finally
    \/ PressKey

Spec == Init /\ [][Next]_vars

(* ------------------------------ properties ----------------------------- *)

\* a step of the loop that took one sample (lines 94-127)
IsSampleStep == pc = "read" /\ pc' \in {"top", "heal", "show"}

OpenCaps == {i \in DOMAIN caps : caps[i].open}

\* a quit key is waiting to be polled
QuitPending == Mask(pendingKey) = OrdQ

\* C1: every sample that is not healthy (the read failed or the health check
\* failed) raises consecutive_failures by exactly 1, and every healthy sample
\* leaves it at 0.
C1_StreakStep ==
    [][IsSampleStep =>
         IF ~ret' \/ ~check_stream_health(frame')
         THEN consecutive_failures' = consecutive_failures + 1
         ELSE consecutive_failures' = 0]_vars

C1_Witness ==
    /\ pc = "top"
    /\ sampled = "degraded"
    /\ prevStreak = 1
    /\ consecutive_failures = 2

\* C2: control enters healing exactly on a sample that has just brought
\* consecutive_failures to 3; a sample that leaves it at 1 or 2 does not.
C2_HealIffThree ==
    [][(pc # "heal" /\ pc' = "heal")
         <=> (IsSampleStep /\ consecutive_failures' = 3)]_vars

C2_Witness ==
    /\ pc = "heal"
    /\ prevStreak = 2
    /\ consecutive_failures = 3

\* C3: at most one capture is open at any time, and every capture but the
\* latest was released before the next one was constructed.
C3_OneOpenCapture ==
    /\ Cardinality(OpenCaps) <= 1
    /\ \A i \in DOMAIN caps :
         i < Len(caps) => ~caps[i].open /\ caps[i].releases >= 1

C3_Witness ==
    /\ Len(caps) >= 2
    /\ caps[1].opened
    /\ caps[2].open

\* C4: once play has stopped, every capture that was opened has been released
\* exactly once.
C4_ReleasedExactlyOnce ==
    pc = "done" =>
      \A i \in DOMAIN caps :
        caps[i].opened => ~caps[i].open /\ caps[i].releases = 1

\* C5: when a healing cycle has reopened the capture, the cycle did resolve
\* (with an identifier), release, open in that order, once each; the old capture
\* is closed after one release and the new one is open on the resolved address.
C5_HealingCycle ==
    pc = "sleep" =>
      /\ healLog = IF Truthy(youtube_id)
                   THEN <<"resolve", "release", "open">>
                   ELSE <<"release", "open">>
      /\ cap = Len(caps)
      /\ cap >= 2
      /\ caps[cap].open /\ caps[cap].releases = 0
      /\ ~caps[cap - 1].open /\ caps[cap - 1].releases = 1
      /\ Truthy(youtube_id) => caps[cap].addr = resolved
      /\ caps[cap].addr = source

C5_Witness ==
    /\ pc = "sleep"
    /\ Truthy(youtube_id)
    /\ resolved = Url1
    /\ caps[cap].addr = Url1

\* C6: with a quit key pending, the next move of the monitor is the shutdown,
\* wherever it stands: at the loop top, about to show a frame, or anywhere in
\* a healing cycle (entering the loop and finishing a read already under way
\* are not counted as moves).
C6_QuitImmediate ==
    [][(QuitPending /\ pc \notin {"play", "read", "finally", "done"} /\ pc' # pc)
         => pc' \in {"finally", "done"}]_vars

\* C7: the loop never takes two reads without polling the keyboard in between.
C7_PollBetweenReads == unpolledReads <= 1

\* C8: when the resolver gives no address during healing, the loop stops with
\* the error printed, the cycle has released and opened nothing, the source is
\* the one the current capture was opened on, and that capture is released
\* exactly once by the shutdown.
C8_ResolveFailureStops ==
    stopReason = "resolve_failed" =>
      /\ pc \in {"finally", "done"}
      /\ Truthy(youtube_id) /\ ~Truthy(resolved)
      /\ lastMsg = "error_resolve"
      /\ healLog = <<"resolve">>
      /\ cap = Len(caps)
      /\ source = caps[cap].addr
      /\ pc = "finally" => caps[cap].open /\ caps[cap].releases = 0
      /\ pc = "done" => ~caps[cap].open /\ caps[cap].releases = 1
      /\ pc = "done" => OpenCaps = {}

C8_Witness ==
    /\ pc = "done"
    /\ stopReason = "resolve_failed"
    /\ ~ret
    /\ prevStreak = 2
    /\ caps[cap].releases = 1

\* C9: three stalled (near-uniform, not dark) frames in a row from a feed with
\* an identifier put the monitor into healing.
C9_FrozenFramesHeal ==
    (Truthy(youtube_id) /\ frozenRun = FailureThreshold)
      => (pc = "heal" \/ stopReason = "interrupt")

\* C10: a frame the classifier calls BLACK_FRAME or FROZEN/NOISE has the same
\* effect on the streak and on control as a failed read.
C10_DegradedAsReadFailure ==
    pc = "read" =>
      \A f \in FeedFrames :
        check_health(f) \in {"BLACK_FRAME", "FROZEN/NOISE"}
          => SampleOutcome(consecutive_failures, TRUE, f)
               = SampleOutcome(consecutive_failures, FALSE, 0)

\* C11: once a local file is at its end of stream the monitor stops and
\* reports completion; the end is not counted or warned about as a failure.
C11_EndOfStreamCompletes ==
    atEnd =>
      /\ pc \in {"finally", "done"}
      /\ stopReason = "completed"
      /\ lastMsg \notin {"warning", "auto_healing"}

InitialOpenFailed == caps # <<>> /\ ~caps[1].opened

\* C12: when the first open fails, play stops at once with the error: no read,
\* no resolver call, no poll and no second capture.
C12_NoRetryAtStartup ==
    InitialOpenFailed =>
      /\ Len(caps) = 1
      /\ cap = 0
      /\ pc \in {"play", "done"}
      /\ sampled = "none"
      /\ unpolledReads = 0
      /\ healLog = <<>>
      /\ resolved = NoneVal
      /\ pc = "done" => stopReason = "source_unavailable" /\ lastMsg = "error_source"

C12_Witness ==
    /\ pc = "done"
    /\ stopReason = "source_unavailable"
    /\ ~caps[1].opened

\* C13: whenever the session has ended, its window has been destroyed.
C13_WindowDestroyed == pc = "done" => window = "destroyed"

RECURSIVE Count(_, _)
\* occurrences of x in the sequence q
Count(q, x) ==
    IF q = <<>> THEN 0 ELSE (IF Head(q) = x THEN 1 ELSE 0) + Count(Tail(q), x)

Stopping == pc \in {"finally", "done"}

\* C14: a healing cycle calls the resolver at most once and opens exactly once;
\* a failed open stops the loop with the error, and once the loop is left
\* nothing is opened, read or resolved any more.
C14_SingleAttempt ==
    /\ [](/\ Count(healLog, "resolve") <= 1
          /\ Count(healLog, "open") <= 1
          /\ pc = "sleep" => Count(healLog, "open") = 1
          /\ stopReason = "reopen_failed" =>
               /\ Stopping
               /\ Count(healLog, "open") = 1
               /\ cap = 0
               /\ lastMsg = "error_reopen")
    /\ [][Stopping =>
            /\ pc' \in {"finally", "done"}
            /\ Len(caps') = Len(caps)
            /\ healLog' = healLog
            /\ resolved' = resolved
            /\ ret' = ret /\ frame' = frame /\ prevStreak' = prevStreak]_vars

C14_Witness ==
    /\ pc = "done"
    /\ stopReason = "reopen_failed"
    /\ healLog = <<"resolve", "release", "open">>

HealingFailed == stopReason \in {"resolve_failed", "reopen_failed"}

C16_LocalHealing ==
    ~Truthy(youtube_id) =>
      /\ resolved = NoneVal
      /\ Count(healLog, "resolve") = 0
      /\ stopReason # "resolve_failed"
      /\ \A i \in DOMAIN caps : caps[i].addr = source /\ caps[i].addr = caps[1].addr
      /\ pc = "sleep" => healLog = <<"release", "open">>
      /\ stopReason = "reopen_failed" => Stopping /\ healLog = <<"release", "open">>

C16_Witness ==
    /\ ~Truthy(youtube_id)
    /\ pc = "sleep"
    /\ Len(caps) = 2
    /\ caps[2].addr = caps[1].addr

\* C17: a frame reaches cv2.imshow only when the classifier's table calls it
\* healthy; black and frozen frames are reported, never shown.
C17_OnlyHealthyShown == displayed # 0 => check_health(displayed) = "HEALTHY"

\* C18: a sample never ends the session by itself; the loop is left on a fault
\* only after the streak reached 3 and the healing attempt failed.
C18_FaultsAbsorbed ==
    /\ [][(pc = "read" /\ pc' \in {"finally", "done"})
            => stopReason' = "interrupt"]_vars
    /\ [](stopReason \in {"none", "quit", "interrupt", "source_unavailable",
                          "resolve_failed", "reopen_failed"})
    /\ [](HealingFailed =>
            /\ consecutive_failures = FailureThreshold
            /\ prevStreak = FailureThreshold - 1
            /\ sampled = "degraded"
            /\ healLog # <<>>)

C18_Witness ==
    /\ pc = "done"
    /\ stopReason = "reopen_failed"
    /\ ~ret
    /\ consecutive_failures = 3

\* a waitKey call took a key out of the window's queue
KeyTaken == pc \in {"top", "show"} /\ pendingKey # -1 /\ pendingKey' = -1

\* C20: a save key (or any key but quit) changes neither the streak nor the
\* capture nor the state of the monitor, which stays sampling; quit stops it.
C20_SaveHasNoEffect ==
    /\ [][(KeyTaken /\ Mask(pendingKey) # OrdQ)
            => /\ consecutive_failures' = consecutive_failures
               /\ cap' = cap /\ caps' = caps /\ source' = source
               /\ stopReason' = stopReason
               /\ pc' = "top"]_vars
    /\ [][(KeyTaken /\ Mask(pendingKey) = OrdQ) => pc' = "finally"]_vars

C20_Witness ==
    /\ pc = "top"
    /\ saved = 7
    /\ lastMsg = "saved"
    /\ pendingKey = -1
    /\ consecutive_failures = 0

\* the resolver process main started did not deliver an address
ProcFailed ==
    \/ mainProc.kind \in {"timeout", "exception"}
    \/ mainProc.kind = "exit" /\ mainProc.returncode # 0

\* C21: get_live_url gives no address when the resolver process exits with a
\* non-zero code, times out or raises, and the caller then gets control back
\* and starts nothing; what it gives otherwise is the output without the
\* surrounding white space.
C21_ResolverTotal ==
    mainProc # NoProc =>
      /\ mainPc \in {"monitor", "play", "exit"}
      /\ ProcFailed => /\ video_source = NoneVal
                       /\ mainPc = "exit"
                       /\ monitor = <<>>
      /\ ~ProcFailed =>
           /\ video_source # NoneVal
           /\ \A i \in DOMAIN video_source : video_source[i] \notin {" ", "\n"}
           /\ \E k \in 0..Len(mainProc.stdout) :
                SubSeq(mainProc.stdout, k + 1, k + Len(video_source)) = video_source
           /\ video_source = <<>> => mainPc = "exit" /\ monitor = <<>>

C21_Witness ==
    /\ mainProc.kind = "timeout"
    /\ video_source = NoneVal
    /\ mainPc = "exit"

\* the two letters are the same up to case
SameLetter(a, b) ==
    \/ a = b
    \/ a \in {"a", "A"} /\ b \in {"a", "A"}
    \/ a \in {"b", "B"} /\ b \in {"b", "B"}

\* q occurs in name, case ignored
NameHas(q, name) ==
    \E k \in 0..(Len(name) - Len(q)) :
       \A j \in 1..Len(q) : SameLetter(q[j], name[k + j])

RECURSIVE Flatten(_)
Flatten(ss) == IF ss = <<>> THEN <<>> ELSE Head(ss) \o Flatten(Tail(ss))

\* every camera of the registry in traversal order
CamerasInOrder(reg) == Flatten(Flatten(Flatten(reg)))

\* the first camera in traversal order whose name has q, NoCam when none has
FirstMatch(reg, q) ==
    LET cams == CamerasInOrder(reg)
        hits == {i \in DOMAIN cams : NameHas(q, cams[i].name)}
    IN  IF hits = {} THEN NoCam
        ELSE cams[CHOOSE i \in hits : \A j \in hits : i <= j]

\* main looked the name given with --cam up
CamLookedUp == mainPc # "start" /\ ~args.list /\ ~Truthy(args.source) /\ Truthy(args.cam)

\* C23: without --source, --cam and --id, with a camera name that is not in the
\* registry, or when the resolver gives no address for the identifier, main
\* exits with code 1 and builds no VideoMonitor.
C23_ConfigErrorsFatal ==
    LET noInput == /\ ~args.list /\ mainPc # "start"
                   /\ ~Truthy(args.source) /\ ~Truthy(args.cam) /\ ~Truthy(args.id)
        camMissing == CamLookedUp /\ FirstMatch(registry, args.cam) = NoCam
        unresolved == /\ mainProc # NoProc
                      /\ (ProcFailed \/ \A i \in DOMAIN mainProc.stdout :
                                           mainProc.stdout[i] \in {" ", "\n"})
    IN  (noInput \/ camMissing \/ unresolved) =>
           /\ mainPc = "exit"
           /\ exitCode = 1
           /\ monitor = <<>>

C23_Witness ==
    /\ mainPc = "exit"
    /\ exitCode = 1
    /\ args.cam = <<"c">>
    /\ registry # <<>>
    /\ monitor = <<>>

\* C24: find_camera returns the first camera in country, state, city, camera
\* order whose name contains the query, case ignored, and nothing when no
\* name does.
C24_FirstMatch == CamLookedUp => cam_data = FirstMatch(registry, args.cam)

C24_Witness ==
    /\ args.cam = <<"a", "b">>
    /\ cam_data = Camera(<<"A", "b">>, <<"id1">>)
    /\ Len(CamerasInOrder(registry)) = 2
    /\ mainPc = "resolve"

\* C31: over all targets of one run and whatever the order of the callbacks,
\* no URL is appended to a local_streams list twice; every append happens in
\* the step whose test found the URL absent from collected_streams, and that
\* step leaves it in the set.
C31_AppendedOnce ==
    /\ [](\A i \in DOMAIN scanLog : \A j \in DOMAIN scanLog :
            (i < j /\ scanLog[i].fresh /\ scanLog[j].fresh)
              => scanLog[i].url # scanLog[j].url)
    /\ [][Len(local_streams') > Len(local_streams) =>
            /\ SubSeq(local_streams', 1, Len(local_streams)) = local_streams
            /\ \A k \in (Len(local_streams) + 1)..Len(local_streams') :
                 /\ local_streams'[k] \notin collected_streams
                 /\ local_streams'[k] \in collected_streams'
                 /\ \A m \in (Len(local_streams) + 1)..Len(local_streams') :
                      m # k => local_streams'[m] # local_streams'[k]]_vars

C31_Witness ==
    /\ Len(scanLog) = 2
    /\ scanLog[1] = [target |-> 1, url |-> "u1", fresh |-> TRUE]
    /\ scanLog[2] = [target |-> 2, url |-> "u1", fresh |-> FALSE]
    /\ local_streams = <<>>

\* the status the audit owes a camera
StatusOwed(cam) ==
    CASE cam.meets = "raise" -> "ERROR"
      [] cam.id = NoId -> "ERROR"
      [] cam.meets = "offline" -> "OFFLINE"
      [] cam.meets = "black" -> "BLACK_FRAME"
      [] OTHER -> "HEALTHY"

\* C32: run_full_audit is never left by an exception of one camera's audit;
\* the results collected so far are those of the first cameras in input
\* order, a camera whose audit failed having status ERROR, and the report is
\* made from exactly one result per camera.
C32_OneResultEach ==
    /\ auditPc # "aborted"
    /\ Len(auditResults) <= Len(auditCams)
    /\ \A i \in DOMAIN auditResults :
         /\ auditResults[i].id = auditCams[i].id
         /\ auditResults[i].status = StatusOwed(auditCams[i])
    /\ auditPc \in {"report", "done"} => Len(auditResults) = Len(auditCams)

\* the error line that goes with each stop caused by a fault
ErrorOf(reason) ==
    CASE reason = "source_unavailable" -> "error_source"
      [] reason = "resolve_failed" -> "error_resolve"
      [] reason = "reopen_failed" -> "error_reopen"
      [] OTHER -> "none"

C25_Cadence ==
    [][(IsSampleStep /\ sampled # "none")
         => current_time - lastReadAt >= interval]_vars

C25_Witness ==
    /\ interval = 1
    /\ Len(caps) = 2
    /\ pc = "show"
    /\ sampled = "healthy"
    /\ lastReadAt >= Epoch + 4

\* C27: the streak is 0, 1 or 2 at the top of every iteration and at the read;
\* it is 3 only while healing runs or after healing failed, and never more.
C27_StreakRange ==
    /\ consecutive_failures \in 0..FailureThreshold
    /\ pc \in {"top", "read", "show", "sleep"} => consecutive_failures < FailureThreshold
    /\ consecutive_failures = FailureThreshold
         => pc \in {"heal", "release", "reopen", "finally", "done"}

C27_Witness ==
    /\ pc = "release"
    /\ consecutive_failures = 3
    /\ prevStreak = 2

\* an add call was made in this step; LastAdd is its entry in the log
IsAddStep == addLog' # addLog
LastAdd == addLog'[Len(addLog')]

\* C28: the registry keeps pairwise distinct URLs under both add functions; an
\* add of a URL already present returns False and changes nothing, any other
\* add returns True and appends that one camera.
C28_UrlsDistinct ==
    /\ [](\A i \in DOMAIN db : \A j \in DOMAIN db : i # j => db[i].url # db[j].url)
    /\ [][IsAddStep =>
            IF \E i \in DOMAIN db : db[i].url = LastAdd.url
            THEN ~LastAdd.ok /\ db' = db
            ELSE /\ LastAdd.ok
                 /\ Len(db') = Len(db) + 1
                 /\ SubSeq(db', 1, Len(db)) = db
                 /\ db'[Len(db')].url = LastAdd.url]_vars

C28_Witness ==
    /\ Len(addLog) = 2
    /\ addLog[1].ok /\ addLog[1].by = "transito"
    /\ ~addLog[2].ok /\ addLog[2].by = "omni"
    /\ addLog[2].url = addLog[1].url

\* the ids the accepted adds were given, in call order
RECURSIVE AcceptedIds(_)
AcceptedIds(log) ==
    IF log = <<>> THEN <<>>
    ELSE (IF Head(log).ok THEN <<Head(log).id>> ELSE <<>>) \o AcceptedIds(Tail(log))

\* C29: an accepted camera gets an id above every id in the registry, 1000 when
\* the registry is empty; the ids given by a run of adds increase strictly; the
\* two functions would give the same id on every registry.
C29_IdsIncrease ==
    /\ [][(IsAddStep /\ LastAdd.ok) =>
            /\ \A i \in DOMAIN db : db[i].id # NoId => LastAdd.id > db[i].id
            /\ db = <<>> => LastAdd.id = 1000
            /\ db'[Len(db')].id = LastAdd.id]_vars
    /\ [](LET ids == AcceptedIds(addLog) IN
            \A i \in DOMAIN ids : \A j \in DOMAIN ids : i < j => ids[i] < ids[j])
    /\ [](NextIdOmni(db) = NextIdTransito(db))

C29_Witness ==
    /\ Len(db) = 3
    /\ db[1].id = 998 /\ db[2].id = 999 /\ db[3].id = 1000
    /\ Len(addLog) = 2
    /\ addLog[1].by # addLog[2].by

\* C26: in youtube_stream.main a waiting 'q' is seen by a poll before the loop
\* takes a second read, failing reads and reconnects included.
C26_YtQuitObserved == ytUnpolled <= 1

\* C30: in youtube_stream.main no capture is released twice, at most one is
\* open at a time, and at the end every capture built has been released once.
C30_YtReleasedOnce ==
    /\ \A i \in DOMAIN ytCaps : ytCaps[i].releases <= 1
    /\ Cardinality({i \in DOMAIN ytCaps : ytCaps[i].open}) <= 1
    /\ ytPc = "done" => \A i \in DOMAIN ytCaps : ytCaps[i].releases = 1

\* the mean of the frame's pixels is below k
MeanBelow(f, k) == SumV(f) - k * Total(f) < 0

RECURSIVE SumDev(_, _, _)
\* sum over the pixels of (v * t - sum)^2, for a frame of t pixels adding up to sum
SumDev(f, t, sum) ==
    IF f = <<>> THEN 0
    ELSE Head(f).n * (Head(f).v * t - sum) * (Head(f).v * t - sum) + SumDev(Tail(f), t, sum)

\* the standard deviation of the frame's pixels is below k
DevBelow(f, k) ==
    LET t == Total(f)
    IN  SumDev(f, t, SumV(f)) < k * k * t * t * t

\* the decision table of C19
TableStatus(f) ==
    IF f = NoFrame THEN "DEAD"
    ELSE IF MeanBelow(f, 10) THEN "BLACK_FRAME"
    ELSE IF DevBelow(f, 2) THEN "FROZEN/NOISE"
    ELSE "HEALTHY"

\* C19: check_health is the decision table: no frame gives DEAD; a mean below
\* 10 gives BLACK_FRAME whatever the deviation (a mean of exactly 10 does not);
\* otherwise a deviation below 2 gives FROZEN/NOISE; otherwise HEALTHY.
C19_DecisionTable ==
    auditStatus # "none" => auditStatus = TableStatus(auditFrame)

\* a dim frame, mean 8.5 and deviation 0.5, classified BLACK_FRAME
C19_Witness ==
    /\ auditFrame = <<Run(8, 1), Run(9, 1)>>
    /\ auditStatus = "BLACK_FRAME"

=============================================================================
